---------------------------- MODULE Spec2Model ----------------------------
(***************************************************************************)
(* A state-machine model of freud's StaticStructureFactor engine           *)
(* (cpp/diffraction/StaticStructureFactor.cc): construction, accumulate    *)
(* in Direct and RDF mode, and reduce.                                     *)
(*                                                                         *)
(* Numbers.  The C++ code computes in float/double.  Here a number is an   *)
(* integer count of 1/One units (One = 2^FracBits), every product and      *)
(* quotient is rounded to the nearest unit the way a float operation is    *)
(* rounded to the nearest representable value, and +infinity and NaN are   *)
(* two reserved values outside the finite range.  The 1001-point RDF grid  *)
(* is scaled down to 2*RdfHalf+1 points (odd, as the static_assert         *)
(* demands) so the Simpson sum stays inside TLC's integers.                *)
(***************************************************************************)
EXTENDS Integers, Sequences, FiniteSets, TLC

\* ------------------------------------------------------------------ bounds
FracBits == 8
MaxPoints == 2
MaxFrames == 2
MaxReduces == 2
RdfHalf == 2

\* Inputs the callers are drawn from.
BinCounts == {0, 1, 2}
KMaxValues == {-1, 0, 1}
KMinValues == {-1, 0, 1, 2}
Spacings == {0, 2}
Workers == {"w1", "w2"}

\* ------------------------------------------------------------ fixed point
One == 2 ^ FracBits
Inf == 2 ^ 30
NaN == 0 - (2 ^ 30)

IsFinite(x) == x # Inf /\ x # NaN /\ x # 0 - Inf

Fx(n) == n * One

Abs(x) == IF x < 0 THEN 0 - x ELSE x

\* p / q rounded to the nearest integer (q > 0), halves away from zero.
RoundDiv(p, q) ==
    IF p >= 0 THEN (2 * p + q) \div (2 * q)
    ELSE 0 - ((2 * (0 - p) + q) \div (2 * q))

FAdd(a, b) ==
    IF a = NaN \/ b = NaN THEN NaN
    ELSE IF ~IsFinite(a) /\ ~IsFinite(b) THEN (IF a = b THEN a ELSE NaN)
    ELSE IF ~IsFinite(a) THEN a
    ELSE IF ~IsFinite(b) THEN b
    ELSE a + b

FSub(a, b) == a - b

FMul(a, b) == RoundDiv(a * b, One)

\* IEEE division: x/0 is an infinity, 0/0 is NaN.
FDiv(a, b) ==
    IF a = NaN \/ b = NaN THEN NaN
    ELSE IF ~IsFinite(a) THEN a
    ELSE IF b = 0 THEN (IF a = 0 THEN NaN ELSE IF a > 0 THEN Inf ELSE 0 - Inf)
    ELSE IF b > 0 THEN RoundDiv(a * One, b)
    ELSE RoundDiv(0 - (a * One), 0 - b)

FMin(a, b) == IF b < a THEN b ELSE a

RECURSIVE SumTo(_, _)
\* f[0] + ... + f[n-1], added left to right
SumTo(f, n) == IF n = 0 THEN 0 ELSE FAdd(SumTo(f, n - 1), f[n - 1])

\* ------------------------------------------------------------------ state
VARIABLES
    ctor,                \* "none" | "live" | "threw": outcome of the constructor
    args,                \* the constructor's arguments, as passed
    m_direct,
    m_frame_counter,
    m_reduce,
    m_min_valid_k,
    m_histogram,         \* the axis: [bins, k_min, k_max]
    m_local_histograms,  \* [Workers -> [0..bins-1 -> number]]
    m_structure_factor,  \* [0..bins-1 -> number]
    frames,              \* history: the frames accumulated so far
    reduces,             \* history: reduce calls since the last accumulate
    reduced_earlier,     \* history: a reduce ran before the latest accumulate
    call,                \* the accumulate call in flight, worker by worker
    buffer,              \* the distance buffer of one accumulateDirect call
    pmf                  \* a PMFXYZ object

vars == <<ctor, args, m_direct, m_frame_counter, m_reduce, m_min_valid_k,
          m_histogram, m_local_histograms, m_structure_factor, frames, reduces,
          reduced_earlier, call, buffer, pmf>>

\* The parts of the state the engine's whole-call operations never touch.
others == <<call, buffer, pmf>>

\* No accumulate call in flight, no distance buffer, no PMFXYZ object.
NoCall == [phase |-> "idle"]
NoBuffer == [phase |-> "none"]
NoPMF == [ctor |-> "none", m_nbins_x |-> 0, m_nbins_y |-> 0, m_nbins_z |-> 0]

engine == <<m_direct, m_frame_counter, m_reduce, m_min_valid_k,
            m_histogram, m_local_histograms, m_structure_factor>>

NoAxis == [bins |-> 0, k_min |-> 0, k_max |-> 0]

Init ==
    /\ ctor = "none"
    /\ args = [bins |-> 0, k_max |-> 0, k_min |-> 0, direct |-> TRUE]
    /\ m_direct = TRUE
    /\ m_frame_counter = 0
    /\ m_reduce = FALSE
    /\ m_min_valid_k = 0
    /\ m_histogram = NoAxis
    /\ m_local_histograms = [w \in Workers |-> <<>>]
    /\ m_structure_factor = <<>>
    /\ frames = <<>>
    /\ reduces = 0
    /\ reduced_earlier = FALSE
    /\ call = NoCall
    /\ buffer = NoBuffer
    /\ pmf = NoPMF

\* ------------------------------------------------------------ constructor
\* Faulty variant: the last check lets k_max = k_min through.
ConstructorThrows_Strict(bins, k_max, k_min) ==
    \/ bins = 0
    \/ k_max <= 0
    \/ k_max < k_min

\* The three argument checks, in order.
ConstructorThrows(bins, k_max, k_min) ==
    \/ bins = 0
    \/ k_max <= 0
    \/ k_max <= k_min

ZeroBins(bins) == [i \in 0 .. bins - 1 |-> 0]

\* The constructor.  Its initializer list sets m_direct and m_frame_counter
\* and its body sets the histograms, m_min_valid_k and m_structure_factor;
\* m_reduce is assigned nowhere in it, so a fresh engine may hold either value.
Construct(bins, k_max, k_min, direct) ==
    /\ ctor = "none"
    /\ args' = [bins |-> bins, k_max |-> k_max, k_min |-> k_min, direct |-> direct]
    /\ UNCHANGED <<frames, reduces, reduced_earlier, others>>
    /\ IF ConstructorThrows(bins, k_max, k_min)
       THEN /\ ctor' = "threw"
            /\ UNCHANGED engine
       ELSE /\ ctor' = "live"
            /\ m_direct' = direct
            /\ m_frame_counter' = 0
            /\ m_reduce' \in BOOLEAN
            /\ m_histogram' = [bins |-> bins, k_min |-> k_min, k_max |-> k_max]
            /\ m_local_histograms' = [w \in Workers |-> ZeroBins(bins)]
            /\ m_min_valid_k' = Inf
            /\ m_structure_factor' = ZeroBins(bins)

\* ------------------------------------------------- histogram collaborators
\* RegularAxis: equal-width bins, centers at the midpoints.
BinCenter(axis, i) ==
    axis.k_min + RoundDiv((2 * i + 1) * (axis.k_max - axis.k_min), 2 * axis.bins)

BinCenters(axis) == [i \in 0 .. axis.bins - 1 |-> BinCenter(axis, i)]

\* sin(x)/x tabulated in tenths on half-unit steps of |x| (the value at the
\* middle of each step); sinc(0) = 1 and the tail beyond the table is 0.
SincTenths == <<10, 9, 8, 6, 3, 1, 0, -2, -2, -2, -2, -1, 0>>

Sinc(x) ==
    IF x = 0 THEN One
    ELSE LET step == ((2 * Abs(x)) \div One) + 1
         IN  IF step > Len(SincTenths) THEN 0
             ELSE RoundDiv(SincTenths[step] * One, 10)

\* forLoopWrapper(0, bins, body): the index range is cut into chunks and every
\* chunk is run by one worker; an assignment names the worker of each index.
Assignments(bins) == [0 .. bins - 1 -> Workers]

\* ThreadLocalHistogram::increment, applied by the worker that owns each index.
Increment(local, asg, value) ==
    [w \in Workers |->
        [i \in DOMAIN value |->
            IF asg[i] = w THEN FAdd(local[w][i], value[i]) ELSE local[w][i]]]

RECURSIVE SumOverWorkers(_, _, _)
SumOverWorkers(local, ws, i) ==
    IF ws = {} THEN 0
    ELSE LET w == CHOOSE x \in ws : TRUE
         IN  FAdd(local[w][i], SumOverWorkers(local, ws \ {w}, i))

\* ThreadLocalHistogram::reduceInto: every bin of the target becomes the sum
\* of that bin over the workers' histograms.
ReduceInto(local, bins) == [i \in 0 .. bins - 1 |-> SumOverWorkers(local, Workers, i)]

\* --------------------------------------------------------- direct estimator
\* A frame of n points on a line, spaced d apart.
DirectFrames == [n : 1 .. MaxPoints, d : Spacings]

Points(frame) == [j \in 1 .. frame.n |-> (j - 1) * frame.d]

\* Box::computeAllDistances: distances[i * n + j] = |p_i - p_j|
AllDistances(points, n) ==
    [idx \in 0 .. n * n - 1 |-> Fx(Abs(points[(idx \div n) + 1] - points[(idx % n) + 1]))]

\* Faulty variant: the pair sum is divided by the number of pairs.
DirectSk_PerPair(distances, k, n) ==
    LET terms == [idx \in DOMAIN distances |-> Sinc(FMul(k, distances[idx]))]
    IN  FDiv(SumTo(terms, n * n), Fx(n * n))

\* Faulty variant: pairs at distance 0 are left out of the sum.
DirectSk_NoSelfPairs(distances, k, n) ==
    LET terms == [idx \in DOMAIN distances |->
                     IF distances[idx] = 0 THEN 0 ELSE Sinc(FMul(k, distances[idx]))]
    IN  FDiv(SumTo(terms, n * n), Fx(n))

\* The body of the k loop: the sum of sinc(k * distance) over the distance
\* buffer, divided by the number of points.
DirectSk(distances, k, n) ==
    LET terms == [idx \in DOMAIN distances |-> Sinc(FMul(k, distances[idx]))]
    IN  FDiv(SumTo(terms, n * n), Fx(n))

accumulateDirect(axis, frame) ==
    LET distances == AllDistances(Points(frame), frame.n)
    IN  [i \in 0 .. axis.bins - 1 |-> DirectSk(distances, BinCenter(axis, i), frame.n)]

\* ------------------------------------------------------------ RDF estimator
rdf_bins == 2 * RdfHalf + 1

TWO_PI == RoundDiv(710 * One, 113)

Half == One \div 2

\* Boxes a frame may come with: two cubes and a 2-D box (Lz = 0, ignored).
Boxes ==
    { [Lx |-> 2, Ly |-> 2, Lz |-> 2, is2D |-> FALSE],
      [Lx |-> 4, Ly |-> 4, Lz |-> 4, is2D |-> FALSE],
      [Lx |-> 6, Ly |-> 4, Lz |-> 0, is2D |-> TRUE] }

\* g(r) as the RDF collaborator may return it: 1 everywhere, or 1 with a
\* single peak of height 2 in the middle bin.
GProfiles == {"ideal", "peak"}

RdfFrames == [box : Boxes, n : {MaxPoints}, g : GProfiles]

RdfValues(g) ==
    [i \in 0 .. rdf_bins - 1 |->
        IF g = "peak" /\ i = RdfHalf THEN Fx(2) ELSE One]

IntMin(a, b) == IF b < a THEN b ELSE a

getVolume(box) ==
    IF box.is2D THEN Fx(box.Lx * box.Ly) ELSE Fx(box.Lx * box.Ly * box.Lz)

\* std::nextafter(x, 0.0f) for x > 0: the next representable value below x
NextAfterDown(x) == IF x > 0 THEN x - 1 ELSE IF x < 0 THEN x + 1 ELSE 0

min_box_length(box) ==
    IF box.is2D THEN Fx(IntMin(box.Lx, box.Ly))
    ELSE Fx(IntMin(box.Lx, IntMin(box.Ly, box.Lz)))

r_max(box) == NextAfterDown(FMul(Half, min_box_length(box)))

\* 4 * pi * N / V
normalization(n, box) == FDiv(FMul(FMul(Fx(2), TWO_PI), Fx(n)), getVolume(box))

\* Faulty variant: the running bound keeps the larger value.
MinValidK_Max(min_valid_k, rmax) ==
    IF min_valid_k = Inf THEN FDiv(TWO_PI, rmax)
    ELSE IF FDiv(TWO_PI, rmax) > min_valid_k THEN FDiv(TWO_PI, rmax) ELSE min_valid_k

\* Faulty variant: the bound is recomputed from the latest frame alone.
MinValidK_Latest(min_valid_k, rmax) == FDiv(TWO_PI, rmax)

\* m_min_valid_k = std::min(m_min_valid_k, TWO_PI / r_max)
MinValidK(min_valid_k, rmax) == FMin(min_valid_k, FDiv(TWO_PI, rmax))

rdf_axis(rmax) == [bins |-> rdf_bins, k_min |-> 0, k_max |-> rmax]

integrand(rdf_centers, rdf_values, k, rdf_index) ==
    LET r == rdf_centers[rdf_index]
        g_r == rdf_values[rdf_index]
    IN  FMul(FMul(FMul(r, r), FSub(g_r, One)), Sinc(FMul(k, r)))

\* (rdf_centers.back() - rdf_centers.front()) / rdf_centers.size()
StepSize(rdf_centers) ==
    FDiv(FSub(rdf_centers[rdf_bins - 1], rdf_centers[0]), Fx(rdf_bins))

\* util::simpson_integrate: composite Simpson rule over num_points samples,
\* weights 1, 4, 2, 4, ..., 4, 1, times dr / 3.
SimpsonWeight(i, num_points) ==
    IF i = 0 \/ i = num_points - 1 THEN 1 ELSE IF i % 2 = 1 THEN 4 ELSE 2

simpson_integrate(f, num_points, dr) ==
    LET weighted == [i \in 0 .. num_points - 1 |-> SimpsonWeight(i, num_points) * f[i]]
    IN  FMul(SumTo(weighted, num_points), FDiv(dr, Fx(3)))

RdfSk(rdf_centers, rdf_values, k, norm) ==
    LET f == [i \in 0 .. rdf_bins - 1 |-> integrand(rdf_centers, rdf_values, k, i)]
        dr == StepSize(rdf_centers)
    IN  FMul(norm, simpson_integrate(f, rdf_bins, dr))

accumulateRDF(axis, frame) ==
    LET rdf_centers == BinCenters(rdf_axis(r_max(frame.box)))
        rdf_values == RdfValues(frame.g)
        norm == normalization(frame.n, frame.box)
    IN  [i \in 0 .. axis.bins - 1 |-> RdfSk(rdf_centers, rdf_values, BinCenter(axis, i), norm)]

\* --------------------------------------------------------------- accumulate
\* Faulty variant: the counter is bumped twice per call.
FrameCounterAfter_Twice(frame_counter) == frame_counter + 2

\* m_frame_counter++
FrameCounterAfter(frame_counter) == frame_counter + 1

\* Faulty variant: the Direct-mode accumulator S_k is declared outside the
\* loop over k, so within one worker's share of the bins it carries the sums
\* of the earlier bins into the later ones.
Accumulate_CarriedSk(frame, asg) ==
    /\ ctor = "live"
    /\ Len(frames) < MaxFrames
    /\ IF m_direct
       THEN /\ frame \in DirectFrames
            /\ LET value == accumulateDirect(m_histogram, frame)
                   carried == [i \in DOMAIN value |->
                                 SumTo([j \in 0 .. i |->
                                           IF asg[j] = asg[i] THEN value[j] ELSE 0], i + 1)]
               IN  m_local_histograms' = Increment(m_local_histograms, asg, carried)
            /\ UNCHANGED m_min_valid_k
       ELSE /\ frame \in RdfFrames
            /\ m_min_valid_k' = MinValidK(m_min_valid_k, r_max(frame.box))
            /\ m_local_histograms' =
                   Increment(m_local_histograms, asg, accumulateRDF(m_histogram, frame))
    /\ m_frame_counter' = FrameCounterAfter(m_frame_counter)
    /\ m_reduce' = TRUE
    /\ frames' = Append(frames, frame)
    /\ reduces' = 0
    /\ reduced_earlier' = (reduced_earlier \/ reduces >= 1)
    /\ UNCHANGED <<ctor, args, m_direct, m_histogram, m_structure_factor, others>>

\* Faulty variant: the bound on valid k is updated before the dispatch, so a
\* Direct-mode frame lowers it too.
Accumulate_BoundInDirect(frame, asg) ==
    /\ ctor = "live"
    /\ Len(frames) < MaxFrames
    /\ IF m_direct
       THEN /\ frame \in DirectFrames
            /\ m_min_valid_k' = MinValidK(m_min_valid_k, Fx(frame.n))
            /\ m_local_histograms' =
                   Increment(m_local_histograms, asg, accumulateDirect(m_histogram, frame))
       ELSE /\ frame \in RdfFrames
            /\ m_min_valid_k' = MinValidK(m_min_valid_k, r_max(frame.box))
            /\ m_local_histograms' =
                   Increment(m_local_histograms, asg, accumulateRDF(m_histogram, frame))
    /\ m_frame_counter' = FrameCounterAfter(m_frame_counter)
    /\ m_reduce' = TRUE
    /\ frames' = Append(frames, frame)
    /\ reduces' = 0
    /\ reduced_earlier' = (reduced_earlier \/ reduces >= 1)
    /\ UNCHANGED <<ctor, args, m_direct, m_histogram, m_structure_factor, others>>

\* accumulate(): dispatch on m_direct, then count the frame and mark the
\* result stale.  asg is the split of the k bins among the workers.
Accumulate(frame, asg) ==
    /\ ctor = "live"
    /\ Len(frames) < MaxFrames
    /\ IF m_direct
       THEN /\ frame \in DirectFrames
            /\ m_local_histograms' =
                   Increment(m_local_histograms, asg, accumulateDirect(m_histogram, frame))
            /\ UNCHANGED m_min_valid_k
       ELSE /\ frame \in RdfFrames
            /\ m_min_valid_k' = MinValidK(m_min_valid_k, r_max(frame.box))
            /\ m_local_histograms' =
                   Increment(m_local_histograms, asg, accumulateRDF(m_histogram, frame))
    /\ m_frame_counter' = FrameCounterAfter(m_frame_counter)
    /\ m_reduce' = TRUE
    /\ frames' = Append(frames, frame)
    /\ reduces' = 0
    /\ reduced_earlier' = (reduced_earlier \/ reduces >= 1)
    /\ UNCHANGED <<ctor, args, m_direct, m_histogram, m_structure_factor, others>>

\* ------------------------------------------------------------------- reduce
\* Faulty variant: the merged sums are added on top of the previous result.
reduce_OnTop(structure_factor, local, direct, frame_counter) ==
    LET sums == ReduceInto(local, Cardinality(DOMAIN structure_factor))
        merged == [i \in DOMAIN sums |-> FAdd(structure_factor[i], sums[i])]
    IN  IF direct
        THEN IF frame_counter > 1
             THEN [i \in DOMAIN merged |-> FDiv(merged[i], Fx(frame_counter))]
             ELSE merged
        ELSE [i \in DOMAIN merged |-> FAdd(One, FDiv(merged[i], Fx(frame_counter)))]

\* Faulty variant: Direct mode never divides by the frame count.
reduce_NoAverage(structure_factor, local, direct, frame_counter) ==
    LET merged == ReduceInto(local, Cardinality(DOMAIN structure_factor))
    IN  IF direct
        THEN merged
        ELSE [i \in DOMAIN merged |-> FAdd(One, FDiv(merged[i], Fx(frame_counter)))]

\* Faulty variant: RDF mode applies its correction only from the second frame on.
reduce_RdfGuarded(structure_factor, local, direct, frame_counter) ==
    LET merged == ReduceInto(local, Cardinality(DOMAIN structure_factor))
    IN  IF direct
        THEN IF frame_counter > 1
             THEN [i \in DOMAIN merged |-> FDiv(merged[i], Fx(frame_counter))]
             ELSE merged
        ELSE IF frame_counter > 1
             THEN [i \in DOMAIN merged |-> FAdd(One, FDiv(merged[i], Fx(frame_counter)))]
             ELSE merged


\* Faulty variant: RDF mode skips the division when no frame was accumulated
\* and reports the value 1.
reduce_EmptyIsUnity(structure_factor, local, direct, frame_counter) ==
    LET merged == ReduceInto(local, Cardinality(DOMAIN structure_factor))
    IN  IF direct
        THEN IF frame_counter > 1
             THEN [i \in DOMAIN merged |-> FDiv(merged[i], Fx(frame_counter))]
             ELSE merged
        ELSE IF frame_counter = 0
             THEN [i \in DOMAIN merged |-> One]
             ELSE [i \in DOMAIN merged |-> FAdd(One, FDiv(merged[i], Fx(frame_counter)))]

\* reduce(): merge the workers' histograms into the result, then normalize.
reduce(structure_factor, local, direct, frame_counter) ==
    LET merged == ReduceInto(local, Cardinality(DOMAIN structure_factor))
    IN  IF direct
        THEN IF frame_counter > 1
             THEN [i \in DOMAIN merged |-> FDiv(merged[i], Fx(frame_counter))]
             ELSE merged
        ELSE [i \in DOMAIN merged |-> FAdd(One, FDiv(merged[i], Fx(frame_counter)))]

\* Faulty variant: reduce() empties the workers' histograms once it has
\* merged them, so a later reduce sees only the frames that came after.
Reduce_ResetsLocal ==
    /\ ctor = "live"
    /\ reduces < MaxReduces
    /\ m_structure_factor' =
           reduce(m_structure_factor, m_local_histograms, m_direct, m_frame_counter)
    /\ m_local_histograms' = [w \in Workers |-> ZeroBins(m_histogram.bins)]
    /\ reduces' = reduces + 1
    /\ UNCHANGED <<ctor, args, m_direct, m_frame_counter, m_reduce, m_min_valid_k,
                   m_histogram, frames, reduced_earlier, others>>

\* A call of reduce().  It writes m_structure_factor and nothing else.
Reduce ==
    /\ ctor = "live"
    /\ reduces < MaxReduces
    /\ m_structure_factor' =
           reduce(m_structure_factor, m_local_histograms, m_direct, m_frame_counter)
    /\ reduces' = reduces + 1
    /\ UNCHANGED <<ctor, args, m_direct, m_frame_counter, m_reduce, m_min_valid_k,
                   m_histogram, m_local_histograms, frames, reduced_earlier, others>>

Next ==
    \/ \E bins \in BinCounts, k_max \in KMaxValues, k_min \in KMinValues, direct \in BOOLEAN :
          Construct(bins, Fx(k_max), Fx(k_min), direct)
    \/ \E frame \in DirectFrames \cup RdfFrames, asg \in Assignments(m_histogram.bins) :
          Accumulate(frame, asg)
    \/ Reduce

Spec == Init /\ [][Next]_vars

\* ------------------------------------------------------ history arithmetic
RECURSIVE SumSeq(_)
SumSeq(s) == IF s = <<>> THEN 0 ELSE FAdd(Head(s), SumSeq(Tail(s)))

RECURSIVE SumOverSet(_, _)
SumOverSet(f, S) ==
    IF S = {} THEN 0
    ELSE LET x == CHOOSE y \in S : TRUE
         IN  FAdd(f[x], SumOverSet(f, S \ {x}))

Bins == 0 .. m_histogram.bins - 1

\* What frame j of the history contributes to bin i, by the engine's mode.
FrameContribution(j, i) ==
    IF m_direct
    THEN accumulateDirect(m_histogram, frames[j])[i]
    ELSE accumulateRDF(m_histogram, frames[j])[i]

\* The sum over the whole history of the contributions to bin i.
AccumulatedSum(i) == SumSeq([j \in 1 .. Len(frames) |-> FrameContribution(j, i)])

\* The workers' histograms, summed, at bin i.
LocalSum(i) == SumOverWorkers(m_local_histograms, Workers, i)

Bound(frame) == FDiv(TWO_PI, r_max(frame.box))

RECURSIVE RunningMin(_)
RunningMin(fs) ==
    IF fs = <<>> THEN Inf
    ELSE LET rest == RunningMin(Tail(fs))
             b == Bound(Head(fs))
         IN  IF b < rest THEN b ELSE rest

\* ------------------------------------------------------------------ claims

\* C1: the constructor throws, in either mode, whenever bins = 0, k_max <= 0
\* or k_max <= k_min, and then no engine exists; with bins = 1, k_min = 0,
\* k_max = 1 it succeeds and the fresh engine has frame counter 0 and
\* min_valid_k = +infinity.
ConstructionValidated ==
    ctor # "none" =>
        /\ (args.bins = 0 \/ args.k_max <= 0 \/ args.k_max <= args.k_min) =>
               (ctor = "threw" /\ m_histogram = NoAxis /\ m_structure_factor = <<>>)
        /\ (args.bins = 1 /\ args.k_min = 0 /\ args.k_max = One) =>
               /\ ctor = "live"
               /\ frames = <<>> => (m_frame_counter = 0 /\ m_min_valid_k = Inf)

\* C1 witness: construction was refused for k_max = k_min > 0 in RDF mode.
ConstructionRefusedOnEqualBounds ==
    /\ ctor = "threw"
    /\ args.bins = 1
    /\ args.k_max = One
    /\ args.k_min = One
    /\ ~args.direct

\* C2: every live engine has bin_count >= 1, k_min >= 0 and k_max > k_min,
\* and its axis is the one it was constructed with.
AxisWellFormed ==
    ctor = "live" =>
        /\ m_histogram.bins >= 1
        /\ m_histogram.k_min >= 0
        /\ m_histogram.k_max > m_histogram.k_min
        /\ m_histogram = [bins |-> args.bins, k_min |-> args.k_min, k_max |-> args.k_max]

\* C3: a reduce that follows a reduce, with no accumulate in between and at
\* least one frame accumulated, leaves the result and min_valid_k as they were.
ReduceIdempotent ==
    [][(Len(frames) >= 1 /\ reduces >= 1 /\ reduces' = reduces + 1) =>
           (m_structure_factor' = m_structure_factor /\ m_min_valid_k' = m_min_valid_k)]_vars

\* C3 witness: two reduces in a row after two frames, on a result that is
\* neither all 0 nor all 1.
ReducedTwice ==
    /\ reduces = 2
    /\ m_frame_counter = 2
    /\ \E i \in Bins : m_structure_factor[i] # 0 /\ m_structure_factor[i] # One

\* C4: in Direct mode, after m >= 1 frames and a reduce, every bin holds the
\* sum of the frames' contributions divided by m (undivided for m = 1); the
\* same frame accumulated twice gives what it gives accumulated once.
DirectFrameAverage ==
    (ctor = "live" /\ m_direct /\ reduces >= 1 /\ Len(frames) >= 1) =>
        \A i \in Bins :
            /\ m_structure_factor[i] =
                   IF Len(frames) = 1 THEN AccumulatedSum(i)
                   ELSE FDiv(AccumulatedSum(i), Fx(Len(frames)))
            /\ (Len(frames) = 2 /\ frames[1] = frames[2]) =>
                   m_structure_factor[i] = FrameContribution(1, i)

\* C4 witness: the same two-point frame accumulated twice, then reduced.
SameFrameTwiceReduced ==
    /\ ctor = "live"
    /\ m_direct
    /\ reduces >= 1
    /\ Len(frames) = 2
    /\ frames[1] = frames[2]
    /\ frames[1].n = 2
    /\ frames[1].d = 2

\* The sum of sinc(k * |p_a - p_b|) over all ordered pairs (a, b) of a frame.
PairSum(frame, k) ==
    LET p == Points(frame)
        pairs == (1 .. frame.n) \X (1 .. frame.n)
        term == [ab \in pairs |-> Sinc(FMul(k, Fx(Abs(p[ab[1]] - p[ab[2]]))))]
    IN  SumOverSet(term, pairs)

\* C5: in Direct mode one frame of n points adds to each bin the sum of
\* sinc(k * distance) over all n*n ordered pairs, divided by n; two points
\* at distance d give sinc(k*d) + 1, and with one frame reduce divides no more.
DirectPairSum ==
    (ctor = "live" /\ m_direct /\ Len(frames) = 1) =>
        \A i \in Bins :
            LET k == BinCenter(m_histogram, i)
                f == frames[1]
            IN  /\ LocalSum(i) = FDiv(PairSum(f, k), Fx(f.n))
                /\ f.n = 2 => LocalSum(i) = FAdd(Sinc(FMul(k, Fx(f.d))), One)
                /\ reduces >= 1 => m_structure_factor[i] = LocalSum(i)

\* C5 witness: one frame of two points 2 apart, reduced, with a bin whose
\* sinc(k*d) is not 1.
TwoPointFrameReduced ==
    /\ ctor = "live"
    /\ m_direct
    /\ Len(frames) = 1
    /\ frames[1].n = 2
    /\ frames[1].d = 2
    /\ reduces >= 1
    /\ \E i \in Bins : Sinc(FMul(BinCenter(m_histogram, i), Fx(2))) # One

\* C6: in Direct mode, when every accumulated frame is a single point, every
\* bin of the reduced result is exactly 1, whatever the axis.
SinglePointUnity ==
    (/\ ctor = "live"
     /\ m_direct
     /\ reduces >= 1
     /\ Len(frames) >= 1
     /\ \A j \in 1 .. Len(frames) : frames[j].n = 1) =>
        \A i \in Bins : m_structure_factor[i] = One

\* C6 witness: a single-point frame reduced on a two-bin axis that starts
\* below zero.
SinglePointReduced ==
    /\ ctor = "live"
    /\ m_direct
    /\ reduces >= 1
    /\ Len(frames) = 1
    /\ frames[1].n = 1
    /\ m_histogram.bins = 2
    /\ m_histogram.k_min < 0

\* C7: in RDF mode reduce sets every bin to 1 + sum / frame count, for one
\* frame as for several; if g = 1 everywhere in every frame, every bin is 1.
RdfNormalization ==
    (ctor = "live" /\ ~m_direct /\ reduces >= 1 /\ Len(frames) >= 1) =>
        \A i \in Bins :
            /\ m_structure_factor[i] =
                   FAdd(One, FDiv(AccumulatedSum(i), Fx(Len(frames))))
            /\ (\A j \in 1 .. Len(frames) : frames[j].g = "ideal") =>
                   m_structure_factor[i] = One

\* C7 witness: a single frame whose g has a peak, reduced to a bin that is not 1.
RdfSingleFrameReduced ==
    /\ ctor = "live"
    /\ ~m_direct
    /\ reduces >= 1
    /\ Len(frames) = 1
    /\ frames[1].g = "peak"
    /\ \E i \in Bins : m_structure_factor[i] # One

\* C8: in RDF mode min_valid_k is +infinity on a fresh engine and after every
\* step the minimum of 2*pi / r_max over the frames accumulated so far; no
\* step raises it.
MinValidKRunningMin ==
    [][(ctor' = "live" /\ ~m_direct') =>
           /\ m_min_valid_k' = RunningMin(frames')
           /\ ctor = "live" => m_min_valid_k' <= m_min_valid_k]_vars

\* C8 witness: two frames with different r_max have been accumulated.
TwoBoxSizesAccumulated ==
    /\ ctor = "live"
    /\ ~m_direct
    /\ Len(frames) = 2
    /\ r_max(frames[1].box) # r_max(frames[2].box)
    /\ m_min_valid_k < Inf

IsShrunkFrame(fs) ==
    /\ Len(fs) >= 2
    /\ \E j \in 1 .. Len(fs) - 1 : r_max(fs[Len(fs)].box) < r_max(fs[j].box)

\* C9 as stated: once a frame with a smaller r_max than an earlier frame's
\* has been accumulated, min_valid_k is not below that frame's 2*pi / r_max.
ShrunkBoxRaisesMinValidK ==
    (ctor = "live" /\ ~m_direct /\ IsShrunkFrame(frames)) =>
        m_min_valid_k >= Bound(frames[Len(frames)])

\* C9 amended: accumulating a frame with a smaller r_max than an earlier
\* frame's leaves min_valid_k unchanged, at or below that frame's own
\* 2*pi / r_max.
ShrunkBoxKeepsMinValidK ==
    [][(/\ ctor = "live"
        /\ ~m_direct
        /\ Len(frames') = Len(frames) + 1
        /\ IsShrunkFrame(frames')) =>
           /\ m_min_valid_k' = m_min_valid_k
           /\ m_min_valid_k' <= Bound(frames'[Len(frames')])]_vars

\* C9 witness: the last frame's r_max is below the first frame's.
ShrunkBoxAccumulated ==
    /\ ctor = "live"
    /\ ~m_direct
    /\ IsShrunkFrame(frames)
    /\ m_min_valid_k < Bound(frames[Len(frames)])

\* C10: an accumulate raises the frame counter by exactly 1 and sets the
\* dirty flag; a reduce changes neither the frame counter nor min_valid_k;
\* the counter never decreases and equals the number of accumulate calls.
FrameCounterCounts ==
    [][/\ Len(frames') = Len(frames) + 1 =>
              (m_frame_counter' = m_frame_counter + 1 /\ m_reduce' = TRUE)
       /\ reduces' = reduces + 1 =>
              (m_frame_counter' = m_frame_counter /\ m_min_valid_k' = m_min_valid_k)
       /\ m_frame_counter' >= m_frame_counter
       /\ m_frame_counter' = Len(frames')]_vars

\* C10 witness: two accumulates and then a reduce in RDF mode.
TwoFramesThenReduce ==
    /\ ctor = "live"
    /\ ~m_direct
    /\ m_frame_counter = 2
    /\ reduces >= 1

\* C11: the dirty flag follows the cycle Accumulating -> Reduced ->
\* Accumulating: it is true after every accumulate, false whenever the last
\* completed operation is reduce, and true again after the next accumulate.
\* (accumulate() sets m_reduce at its last line; reduce() has no assignment
\* to m_reduce, so the flag is still true after it.)
DirtyFlagCycle ==
    (ctor = "live" /\ Len(frames) >= 1) =>
        /\ reduces = 0 => m_reduce = TRUE
        /\ reduces >= 1 => m_reduce = FALSE

\* C12: reduce on an engine that has accumulated nothing raises no error.
\* In Direct mode the result is zero in every bin; in RDF mode the division
\* by the frame counter 0 is carried out and every bin holds the NaN that
\* 1 + 0/0 gives, neither a failure nor the value 1.
ReduceBeforeAccumulate ==
    (ctor = "live" /\ frames = <<>>) =>
        /\ reduces = 0 => ENABLED Reduce
        /\ reduces >= 1 =>
               /\ DOMAIN m_structure_factor = Bins
               /\ \A i \in Bins :
                      m_structure_factor[i] = (IF m_direct THEN 0 ELSE NaN)

\* An RDF-mode engine with two bins, reduced before any frame was accumulated.
ReducedWhileEmpty ==
    /\ ctor = "live"
    /\ ~m_direct
    /\ m_histogram.bins = 2
    /\ frames = <<>>
    /\ reduces >= 1

\* ------------------------------------------------- replaying the history
RECURSIVE Reverse(_)
Reverse(s) == IF s = <<>> THEN <<>> ELSE Append(Reverse(Tail(s)), Head(s))

\* What a frame contributes to every bin, by the engine's mode.
Contribution(frame) ==
    IF m_direct
    THEN accumulateDirect(m_histogram, frame)
    ELSE accumulateRDF(m_histogram, frame)

\* The workers' histograms after the frames fs were accumulated, in the order
\* of fs, into fresh histograms with every bin given to the one worker w.
RECURSIVE ReplayOnOneWorker(_, _)
ReplayOnOneWorker(fs, w) ==
    IF fs = <<>> THEN [v \in Workers |-> ZeroBins(m_histogram.bins)]
    ELSE Increment(ReplayOnOneWorker(SubSeq(fs, 1, Len(fs) - 1), w),
                   [i \in Bins |-> w], Contribution(fs[Len(fs)]))

\* C13: the result after reduce does not depend on how many workers ran, on
\* how each accumulate split the k bins among them, or on the order of the
\* frames: it equals the result of accumulating the same frames in reverse
\* order with a single worker doing every bin.
PartitionAndOrderInvariant ==
    (ctor = "live" /\ reduces >= 1 /\ Len(frames) >= 1) =>
        LET w == CHOOSE v \in Workers : TRUE
        IN  m_structure_factor =
                reduce(ZeroBins(m_histogram.bins), ReplayOnOneWorker(Reverse(frames), w),
                       m_direct, Len(frames))

\* Two different frames were accumulated and reduced, and some bin was one
\* worker's in one frame and the other worker's in the other frame.
PartitionsDiffered ==
    /\ ctor = "live"
    /\ reduces >= 1
    /\ Len(frames) = 2
    /\ frames[1] # frames[2]
    /\ m_histogram.bins = 2
    /\ \E i \in Bins : \A w \in Workers : m_local_histograms[w][i] # 0

\* The result a single reduce gives after the frames fs were accumulated into
\* a freshly constructed engine.
FreshlyReduced(fs) ==
    reduce(ZeroBins(m_histogram.bins), ReplayOnOneWorker(fs, CHOOSE w \in Workers : TRUE),
           m_direct, Len(fs))

\* C15: the result depends only on the frames accumulated since construction
\* and not on earlier reduce calls: accumulate; reduce; accumulate; reduce
\* leaves the result of accumulate; accumulate; reduce, because the workers'
\* histograms keep the sums over all frames and reduce overwrites the result.
ResultIgnoresEarlierReduces ==
    (ctor = "live" /\ reduced_earlier /\ reduces >= 1) =>
        /\ \A i \in Bins : LocalSum(i) = AccumulatedSum(i)
        /\ m_structure_factor = FreshlyReduced(frames)

\* accumulate; reduce; accumulate; reduce has run on an engine with two bins,
\* and the frames left something in bin 0.
ReducedBetweenFrames ==
    /\ ctor = "live"
    /\ reduced_earlier
    /\ reduces >= 1
    /\ Len(frames) = 2
    /\ m_histogram.bins = 2
    /\ AccumulatedSum(0) # 0

\* C16: in Direct mode min_valid_k is never modified: it is +infinity after
\* any sequence of accumulate and reduce calls.
DirectKeepsMinValidKInfinite ==
    (ctor = "live" /\ m_direct) => m_min_valid_k = Inf

\* A Direct-mode engine after accumulate; reduce; accumulate; reduce.
DirectCycleCompleted ==
    /\ ctor = "live"
    /\ m_direct
    /\ reduced_earlier
    /\ reduces >= 1
    /\ Len(frames) = 2

\* Equal up to the rounding of the last place of each side.
SameUpToRounding(a, b) == Abs(a - b) <= 2

\* C17: the Simpson integration of an RDF frame uses an odd number of RDF
\* samples and a step dr equal to r_max divided by the number of RDF bins,
\* which is the spacing between adjacent RDF bin centers over [0, r_max].
\* (The code takes dr = (last center - first center) / number of centers:
\* the numerator spans one bin less than r_max, so dr falls short of the
\* spacing by the factor (bins - 1) / bins.)
SimpsonStepIsBinSpacing ==
    (ctor = "live" /\ ~m_direct) =>
        \A j \in 1 .. Len(frames) :
            LET rmax == r_max(frames[j].box)
                rdf_centers == BinCenters(rdf_axis(rmax))
                dr == StepSize(rdf_centers)
            IN  /\ rdf_bins % 2 = 1
                /\ SameUpToRounding(dr, FDiv(rmax, Fx(rdf_bins)))
                /\ SameUpToRounding(dr, FSub(rdf_centers[1], rdf_centers[0]))

\* ------------------------------------------- accumulate, worker by worker
\* A second specification follows one accumulate call through its parallel
\* loop: forLoopWrapper cuts the range of k bins into contiguous chunks, each
\* chunk's body runs on one worker, and the call returns when every chunk is
\* done.
WorkerBinCounts == {1, 2, 3}

\* One frame per mode is enough to tell the workers' writes apart.
WorkerFrames ==
    { [n |-> MaxPoints, d |-> 2],
      [box |-> [Lx |-> 2, Ly |-> 2, Lz |-> 2, is2D |-> FALSE], n |-> MaxPoints, g |-> "peak"] }

\* The engine right after a successful construction with bins k bins on [0, 1].
InitWorkers ==
    /\ ctor = "live"
    /\ \E bins \in WorkerBinCounts, direct \in BOOLEAN :
          /\ args = [bins |-> bins, k_max |-> One, k_min |-> 0, direct |-> direct]
          /\ m_direct = direct
          /\ m_histogram = [bins |-> bins, k_min |-> 0, k_max |-> One]
          /\ m_local_histograms = [w \in Workers |-> ZeroBins(bins)]
          /\ m_structure_factor = ZeroBins(bins)
    /\ m_frame_counter = 0
    /\ m_reduce \in BOOLEAN
    /\ m_min_valid_k = Inf
    /\ frames = <<>>
    /\ reduces = 0
    /\ reduced_earlier = FALSE
    /\ call = NoCall
    /\ buffer = NoBuffer
    /\ pmf = NoPMF

\* The contiguous chunks [begin, end) that the cut points make of [0, bins).
ChunksOf(bins, cuts) ==
    LET starts == {0} \cup cuts
        ends == cuts \cup {bins}
    IN  { <<b, CHOOSE e \in ends : e > b /\ \A x \in ends : x > b => e <= x>> : b \in starts }

\* Faulty variant: the loop starts at bin 0 instead of the chunk's first bin.
ChunkIndices_FromZero(begin_k_index, end_k_index) == 0 .. end_k_index - 1

\* for (size_t k_index = begin_k_index; k_index < end_k_index; ++k_index)
ChunkIndices(begin_k_index, end_k_index) == begin_k_index .. end_k_index - 1

\* accumulate() up to the parallel loop: in RDF mode the bound on valid k is
\* updated first; then the range of bins is cut into chunks.
BeginAccumulate(frame, cuts) ==
    /\ ctor = "live"
    /\ call.phase # "running"
    /\ Len(frames) < MaxFrames
    /\ IF m_direct
       THEN frame \in DirectFrames /\ UNCHANGED m_min_valid_k
       ELSE frame \in RdfFrames /\ m_min_valid_k' = MinValidK(m_min_valid_k, r_max(frame.box))
    /\ call' = [phase |-> "running",
                frame |-> frame,
                before |-> m_local_histograms,
                chunk |-> [c \in ChunksOf(m_histogram.bins, cuts) |->
                              [owner |-> "none", todo |-> {}]],
                hits |-> ZeroBins(m_histogram.bins),
                writers |-> [i \in Bins |-> {}]]
    /\ UNCHANGED <<ctor, args, m_direct, m_frame_counter, m_reduce, m_histogram,
                   m_local_histograms, m_structure_factor, frames, reduces,
                   reduced_earlier, buffer, pmf>>

\* A worker that is running no chunk takes a chunk nobody has taken and
\* enters the loop body with the chunk's bounds.
RunBody(c, w) ==
    /\ call.phase = "running"
    /\ c \in DOMAIN call.chunk
    /\ call.chunk[c].owner = "none"
    /\ \A d \in DOMAIN call.chunk : call.chunk[d].owner = w => call.chunk[d].todo = {}
    /\ call' = [call EXCEPT !.chunk[c] = [owner |-> w, todo |-> ChunkIndices(c[1], c[2])]]
    /\ UNCHANGED <<ctor, args, m_direct, m_frame_counter, m_reduce, m_min_valid_k,
                   m_histogram, m_local_histograms, m_structure_factor, frames, reduces,
                   reduced_earlier, buffer, pmf>>

\* One pass of the loop body: compute S(k) for the next bin of the chunk and
\* increment that bin of the running worker's own histogram.
BodyStep(c) ==
    /\ call.phase = "running"
    /\ c \in DOMAIN call.chunk
    /\ call.chunk[c].todo # {}
    /\ LET w == call.chunk[c].owner
           k_index == CHOOSE k \in call.chunk[c].todo : \A x \in call.chunk[c].todo : k <= x
           S_k == Contribution(call.frame)[k_index]
       IN  /\ m_local_histograms' =
                  [m_local_histograms EXCEPT ![w][k_index] = FAdd(@, S_k)]
           /\ call' = [call EXCEPT !.chunk[c].todo = @ \ {k_index},
                                   !.hits[k_index] = @ + 1,
                                   !.writers[k_index] = @ \cup {w}]
    /\ UNCHANGED <<ctor, args, m_direct, m_frame_counter, m_reduce, m_min_valid_k,
                   m_histogram, m_structure_factor, frames, reduces, reduced_earlier,
                   buffer, pmf>>

\* The parallel loop has joined: every chunk was taken and finished.  The
\* call counts the frame, marks the result stale and returns.
EndAccumulate ==
    /\ call.phase = "running"
    /\ \A c \in DOMAIN call.chunk : call.chunk[c].owner # "none" /\ call.chunk[c].todo = {}
    /\ m_frame_counter' = FrameCounterAfter(m_frame_counter)
    /\ m_reduce' = TRUE
    /\ frames' = Append(frames, call.frame)
    /\ reduces' = 0
    /\ reduced_earlier' = (reduced_earlier \/ reduces >= 1)
    /\ call' = [call EXCEPT !.phase = "returned"]
    /\ UNCHANGED <<ctor, args, m_direct, m_min_valid_k, m_histogram, m_local_histograms,
                   m_structure_factor, buffer, pmf>>

NextWorkers ==
    \/ \E frame \in WorkerFrames, cuts \in SUBSET (1 .. m_histogram.bins - 1) :
          BeginAccumulate(frame, cuts)
    \/ \E c \in (0 .. m_histogram.bins) \X (0 .. m_histogram.bins), w \in Workers :
          RunBody(c, w)
    \/ \E c \in (0 .. m_histogram.bins) \X (0 .. m_histogram.bins) : BodyStep(c)
    \/ EndAccumulate

SpecWorkers == InitWorkers /\ [][NextWorkers]_vars

\* C14: during one accumulate call every k bin 0 .. bins-1 is processed by
\* exactly one worker and incremented exactly once, a worker writes only to
\* its own histogram and no cell is written by two workers, and the call
\* returns (and counts the frame) only after all workers have finished.
EachBinOnceByOneWorker ==
    call.phase \in {"running", "returned"} =>
        /\ \A k \in Bins :
              /\ call.hits[k] <= 1
              /\ Cardinality(call.writers[k]) = call.hits[k]
              /\ \A w \in Workers :
                    m_local_histograms[w][k] =
                        IF w \in call.writers[k]
                        THEN FAdd(call.before[w][k], Contribution(call.frame)[k])
                        ELSE call.before[w][k]
        /\ call.phase = "running" => m_frame_counter = Len(frames)
        /\ call.phase = "returned" =>
              /\ \A k \in Bins : call.hits[k] = 1
              /\ \A c \in DOMAIN call.chunk : call.chunk[c].todo = {}
              /\ m_frame_counter = Len(frames)
              /\ frames[Len(frames)] = call.frame

\* A call over three bins has returned after both workers took part in it.
BothWorkersTookPart ==
    /\ call.phase = "returned"
    /\ m_histogram.bins = 3
    /\ \A w \in Workers : \E k \in Bins : call.writers[k] = {w}

\* --------------------------------------------- the Direct distance buffer
\* A third specification follows the first two lines of accumulateDirect for
\* point counts up to the top of the unsigned 32-bit range.  Numbers that do
\* not fit TLC's integers are kept as little-endian byte strings.
MaxSmallCount == 40

\* Point counts: small ones, and those around 2^16 and at the top of the
\* range the model can hold in one integer.
PointCounts == (0 .. MaxSmallCount) \cup {2^16 - 1, 2^16, 2^16 + 1, 2^30 + (2^30 - 1)}

Byte == 2^8

\* The four bytes of an unsigned 32-bit value, least significant first.
Bytes32(n) == [i \in 0 .. 3 |-> (n \div (Byte ^ i)) % Byte]

\* Column k of the schoolbook product of two 4-byte values.
Term(a, b, i, k) == IF k - i \in 0 .. 3 THEN a[i] * b[k - i] ELSE 0

Column(a, b, k) == Term(a, b, 0, k) + Term(a, b, 1, k) + Term(a, b, 2, k) + Term(a, b, 3, k)

RECURSIVE CarryInto(_, _, _)
CarryInto(a, b, k) ==
    IF k = 0 THEN 0 ELSE (Column(a, b, k - 1) + CarryInto(a, b, k - 1)) \div Byte

\* The exact product of two 4-byte values, as eight bytes.
ExactProduct(a, b) ==
    [k \in 0 .. 7 |-> (Column(a, b, k) + CarryInto(a, b, k)) % Byte]

\* unsigned int * unsigned int: the product modulo 2^32, i.e. its low four
\* bytes, widened to the eight bytes of a size_t.
UnsignedProduct(a, b) ==
    [k \in 0 .. 7 |-> IF k <= 3 THEN ExactProduct(a, b)[k] ELSE 0]

\* accumulateDirect is entered with n_query_points points.
EnterAccumulateDirect(n_query_points) ==
    /\ buffer.phase = "none"
    /\ buffer' = [phase |-> "entered", n_query_points |-> n_query_points]
    /\ UNCHANGED <<ctor, args, engine, frames, reduces, reduced_earlier, call, pmf>>

\* auto distances = std::vector<float>(n_query_points * n_query_points);
AllocateDistances ==
    /\ buffer.phase = "entered"
    /\ buffer' = [phase |-> "allocated",
                  n_query_points |-> buffer.n_query_points,
                  size |-> UnsignedProduct(Bytes32(buffer.n_query_points),
                                           Bytes32(buffer.n_query_points))]
    /\ UNCHANGED <<ctor, args, engine, frames, reduces, reduced_earlier, call, pmf>>

\* box.computeAllDistances(query_points, n, query_points, n, distances.data())
\* writes one distance for every ordered pair of points.
ComputeAllDistances ==
    /\ buffer.phase = "allocated"
    /\ buffer' = [phase |-> "filled",
                  n_query_points |-> buffer.n_query_points,
                  size |-> buffer.size,
                  written |-> ExactProduct(Bytes32(buffer.n_query_points),
                                           Bytes32(buffer.n_query_points))]
    /\ UNCHANGED <<ctor, args, engine, frames, reduces, reduced_earlier, call, pmf>>

NextBuffer ==
    \/ \E n_query_points \in PointCounts : EnterAccumulateDirect(n_query_points)
    \/ AllocateDistances
    \/ ComputeAllDistances

SpecBuffer == Init /\ [][NextBuffer]_vars

\* C18: for every point count n of the unsigned 32-bit range the distance
\* buffer holds exactly n*n entries (the size expression, evaluated modulo
\* 2^32, equals the true product), so computeAllDistances writes no entry
\* past the buffer.
DistanceBufferHoldsAllPairs ==
    buffer.phase = "filled" => buffer.written = buffer.size

\* ------------------------------------------------------------------ PMFXYZ
\* A fourth specification models the PMFXYZ histogram (cpp/pmft/PMFXYZ.cc):
\* its constructor, accumulate, getPCF with its parallel merge, and resetPCF.
\* The object is the record pmf; its fields carry the members' names.
MaxPMFCalls == 2
MaxGets == 2

PMFBinCounts == {0, 1, 2}

\* Extents tried for max_x, and for max_y and max_z: the three axes go
\* through the same checks, so the zero extent is tried on one axis only.
PMFExtents == {-1, 0, 1}
PMFSignedExtents == {-1, 1}

\* m_dx = 2.0 * m_max_x / float(m_nbins_x)
BinWidth(max, nbins) == FDiv(FMul(Fx(2), max), Fx(nbins))

\* The argument checks on one axis that come before the bin width is known.
AxisRejectedEarly(max, nbins) == nbins < 1 \/ max < 0

\* The constructor's checks: bin counts, then extents, then bin widths.
PMFConstructorThrows(max_x, max_y, max_z, nbins_x, nbins_y, nbins_z) ==
    \/ nbins_x < 1
    \/ nbins_y < 1
    \/ nbins_z < 1
    \/ max_x < 0
    \/ max_y < 0
    \/ max_z < 0
    \/ BinWidth(max_x, nbins_x) > max_x
    \/ BinWidth(max_y, nbins_y) > max_y
    \/ BinWidth(max_z, nbins_z) > max_z

\* Index3D(w, h, d)(i, j, k): the position of bin (i, j, k) in the flat array.
Index3D(w, h, d, i, j, k) == k * w * h + j * w + i

\* The bins of the flat array, and the array with every count zero.
PMFBins == 0 .. pmf.m_nbins_x * pmf.m_nbins_y * pmf.m_nbins_z - 1

ZeroCounts(nbins_x, nbins_y, nbins_z) == [b \in 0 .. nbins_x * nbins_y * nbins_z - 1 |-> 0]

\* The constructor: on success the shared array is allocated and zeroed and
\* no thread has a local array yet.
ConstructPMFXYZ(max_x, max_y, max_z, nbins_x, nbins_y, nbins_z) ==
    /\ pmf.ctor = "none"
    /\ pmf' =
         LET a == [max_x |-> max_x, max_y |-> max_y, max_z |-> max_z,
                   nbins_x |-> nbins_x, nbins_y |-> nbins_y, nbins_z |-> nbins_z]
         IN  IF PMFConstructorThrows(max_x, max_y, max_z, nbins_x, nbins_y, nbins_z)
             THEN [ctor |-> "threw", args |-> a,
                   m_nbins_x |-> 0, m_nbins_y |-> 0, m_nbins_z |-> 0]
             ELSE [ctor |-> "live", args |-> a,
                   m_nbins_x |-> nbins_x, m_nbins_y |-> nbins_y, m_nbins_z |-> nbins_z,
                   m_dx |-> BinWidth(max_x, nbins_x),
                   m_dy |-> BinWidth(max_y, nbins_y),
                   m_dz |-> BinWidth(max_z, nbins_z),
                   m_pcf_array |-> ZeroCounts(nbins_x, nbins_y, nbins_z),
                   m_local_pcf_array |-> <<>>,
                   calls |-> 0, gets |-> 0, resets |-> 0,
                   writers |-> [b \in 0 .. nbins_x * nbins_y * nbins_z - 1 |-> {}]]
    /\ UNCHANGED <<ctor, args, engine, frames, reduces, reduced_earlier, call, buffer>>

\* What one accumulate call makes the threads do: a thread stays out of the
\* call, runs a range without a pair in range, or counts a pair in one bin.
\* The pairs tried fall in the first or in the last bin of the grid.
ThreadWork(nbins_x, nbins_y, nbins_z) ==
    [kind : {"absent", "nohit"}, bin : {<<0, 0, 0>>}]
        \cup [kind : {"hit"},
              bin : {<<0, 0, 0>>, <<nbins_x - 1, nbins_y - 1, nbins_z - 1>>}]

\* ComputePMFT::operator() on one thread: the local array is created zeroed
\* on first use, and the bin of each pair in range is incremented.
LocalAfter(local, work, nbins_x, nbins_y, nbins_z) ==
    LET threads == DOMAIN local \cup {t \in DOMAIN work : work[t].kind # "absent"}
        old(t) == IF t \in DOMAIN local THEN local[t]
                  ELSE ZeroCounts(nbins_x, nbins_y, nbins_z)
    IN  [t \in threads |->
            IF t \in DOMAIN work /\ work[t].kind = "hit"
            THEN [old(t) EXCEPT ![Index3D(nbins_x, nbins_y, nbins_z, work[t].bin[1],
                                          work[t].bin[2], work[t].bin[3])] = @ + 1]
            ELSE old(t)]

\* accumulate(): the threads bin the pairs into their local arrays; the
\* shared array is not touched.
AccumulatePMF(work) ==
    /\ pmf.ctor = "live"
    /\ pmf.calls < MaxPMFCalls
    /\ pmf' = [pmf EXCEPT
                 !.m_local_pcf_array =
                     LocalAfter(@, work, pmf.m_nbins_x, pmf.m_nbins_y, pmf.m_nbins_z),
                 !.calls = @ + 1,
                 !.gets = 0,
                 !.resets = 0,
                 !.writers = [b \in PMFBins |-> {}]]
    /\ UNCHANGED <<ctor, args, engine, frames, reduces, reduced_earlier, call, buffer>>

RECURSIVE SumOverThreads(_, _, _)
\* The sum over the threads ts of the count each holds for bin b.
SumOverThreads(local, ts, b) ==
    IF ts = {} THEN 0
    ELSE LET t == CHOOSE x \in ts : TRUE
         IN  local[t][b] + SumOverThreads(local, ts \ {t}, b)

\* The (i, j, k) that CombinePCFXYZ visits and that land on flat bin b.
VisitsOf(b, nbins_x, nbins_y, nbins_z) ==
    { v \in (0 .. nbins_x - 1) \X (0 .. nbins_y - 1) \X (0 .. nbins_z - 1) :
        Index3D(nbins_x, nbins_y, nbins_z, v[1], v[2], v[3]) = b }

\* Faulty variant: the shared array is not zeroed before the merge.
reducePCF_NoClear(pcf_array, local, nbins_x, nbins_y, nbins_z) ==
    [b \in DOMAIN pcf_array |->
        pcf_array[b] + Cardinality(VisitsOf(b, nbins_x, nbins_y, nbins_z))
                         * SumOverThreads(local, DOMAIN local, b)]

\* reducePCF(): zero the shared array, then for every visited (i, j, k) add
\* each thread's count of that bin to the shared bin.
reducePCF(pcf_array, local, nbins_x, nbins_y, nbins_z) ==
    [b \in DOMAIN pcf_array |->
        0 + Cardinality(VisitsOf(b, nbins_x, nbins_y, nbins_z))
              * SumOverThreads(local, DOMAIN local, b)]

\* getPCF(): reducePCF, with the x range split among the merging workers by
\* asg, then the shared array is returned.  writers records which workers
\* wrote each bin during the latest merge.
GetPCF(asg) ==
    /\ pmf.ctor = "live"
    /\ pmf.gets < MaxGets
    /\ pmf' = [pmf EXCEPT
                 !.m_pcf_array =
                     reducePCF(@, pmf.m_local_pcf_array,
                               pmf.m_nbins_x, pmf.m_nbins_y, pmf.m_nbins_z),
                 !.writers =
                     [b \in PMFBins |->
                        { asg[v[1]] : v \in VisitsOf(b, pmf.m_nbins_x, pmf.m_nbins_y,
                                                     pmf.m_nbins_z) }],
                 !.gets = @ + 1,
                 !.resets = 0]
    /\ UNCHANGED <<ctor, args, engine, frames, reduces, reduced_earlier, call, buffer>>

\* Faulty variant: the commented-out memset is in force, so the shared array
\* is zeroed too.
resetPCF_ClearsShared(pcf_array, local, nbins_x, nbins_y, nbins_z) ==
    [m_pcf_array |-> ZeroCounts(nbins_x, nbins_y, nbins_z),
     m_local_pcf_array |-> [t \in DOMAIN local |-> ZeroCounts(nbins_x, nbins_y, nbins_z)]]

\* resetPCF(): every thread's local array is zeroed; the line that would
\* zero the shared array is commented out.
resetPCF(pcf_array, local, nbins_x, nbins_y, nbins_z) ==
    [m_pcf_array |-> pcf_array,
     m_local_pcf_array |-> [t \in DOMAIN local |-> ZeroCounts(nbins_x, nbins_y, nbins_z)]]

\* A call of resetPCF().  The count of accumulate calls starts again, as the
\* counts do.
ResetPCF ==
    /\ pmf.ctor = "live"
    /\ pmf.resets = 0
    /\ LET after == resetPCF(pmf.m_pcf_array, pmf.m_local_pcf_array,
                            pmf.m_nbins_x, pmf.m_nbins_y, pmf.m_nbins_z)
       IN  pmf' = [pmf EXCEPT
                     !.m_pcf_array = after.m_pcf_array,
                     !.m_local_pcf_array = after.m_local_pcf_array,
                     !.calls = 0,
                     !.gets = 0,
                     !.resets = 1,
                     !.writers = [b \in PMFBins |-> {}]]
    /\ UNCHANGED <<ctor, args, engine, frames, reduces, reduced_earlier, call, buffer>>

NextPMF ==
    \/ \E max_x \in PMFExtents, max_y, max_z \in PMFSignedExtents,
          nbins_x, nbins_y, nbins_z \in PMFBinCounts :
          ConstructPMFXYZ(Fx(max_x), Fx(max_y), Fx(max_z), nbins_x, nbins_y, nbins_z)
    \/ \E work \in [Workers -> ThreadWork(pmf.m_nbins_x, pmf.m_nbins_y, pmf.m_nbins_z)] :
          AccumulatePMF(work)
    \/ \E asg \in [0 .. pmf.m_nbins_x - 1 -> Workers] : GetPCF(asg)
    \/ ResetPCF

SpecPMF == Init /\ [][NextPMF]_vars

\* C19: PMFXYZ construction follows its error messages: it is refused when
\* an axis has fewer than 1 bin or a negative extent, and it succeeds for
\* every configuration with at least 1 bin and a positive extent on each
\* axis, exactly 1 bin included.  (With 1 bin the bin width is twice the
\* extent, so the later check "max must be greater than d" refuses it.)
PMFConstructionFollowsMessages ==
    pmf.ctor # "none" =>
        LET a == pmf.args
        IN  /\ (\/ AxisRejectedEarly(a.max_x, a.nbins_x)
                \/ AxisRejectedEarly(a.max_y, a.nbins_y)
                \/ AxisRejectedEarly(a.max_z, a.nbins_z)) => pmf.ctor = "threw"
            /\ (/\ a.nbins_x >= 1 /\ a.max_x > 0
                /\ a.nbins_y >= 1 /\ a.max_y > 0
                /\ a.nbins_z >= 1 /\ a.max_z > 0) => pmf.ctor = "live"

\* C20: getPCF returns, for every bin, the sum over all thread-local arrays
\* of that bin's count; it is idempotent, since reducePCF zeroes the shared
\* array before it sums, so a second getPCF returns the same sums; and the
\* parallel merge writes each bin from exactly one worker.
GetPCFSumsThreadLocals ==
    (pmf.ctor = "live" /\ pmf.gets >= 1) =>
        \A b \in PMFBins :
            /\ pmf.m_pcf_array[b] =
                   SumOverThreads(pmf.m_local_pcf_array, DOMAIN pmf.m_local_pcf_array, b)
            /\ Cardinality(pmf.writers[b]) = 1

\* getPCF was called twice in a row after two threads had counted a pair in
\* the same bin, and the two halves of the x range were merged by different
\* workers.
GotPCFTwice ==
    /\ pmf.ctor = "live"
    /\ pmf.gets = 2
    /\ pmf.m_nbins_x = 2
    /\ \E b \in PMFBins : pmf.m_pcf_array[b] = 2
    /\ \E b, c \in PMFBins : pmf.writers[b] # pmf.writers[c]

=============================================================================
